---- MODULE Spec2Model ----
(***************************************************************************)
(* url-to-gcs: a GitHub Action that streams the body of an HTTP response   *)
(* into a Google Cloud Storage object.                                     *)
(*                                                                         *)
(* The module models one invocation of run() (src/src/index.ts) together   *)
(* with uploadStreamToGCS and parseKeyValuePairs (upload.ts, kept as       *)
(* src/unnamed/part_001); SpecSuccessive adds a second invocation after    *)
(* the first, SpecConcurrent a second invocation beside the first.         *)
(* src/src/index.ts holds two run() functions: lines 24-200 (existence     *)
(* check before the download) and lines 213-374 (existence check           *)
(* delegated to the uploader, after the download).  The                    *)
(* variable `variant` says which of the two is executing.                  *)
(*                                                                         *)
(* download.ts (downloadAsStream, the byte counting stream) is not part    *)
(* of the sources; it is modelled from the specification, sections 4.2     *)
(* and 4.3.  The uploader the second run() calls with two arguments is     *)
(* not part of the sources either; it is modelled from its call site.      *)
(***************************************************************************)
EXTENDS Integers, Sequences, FiniteSets, TLC

VARIABLES
    variant,          \* 1: run() of index.ts:24 ; 2: run() of index.ts:213
    inputs,           \* the action's inputs, as core.getInput returns them
    pc,               \* where run() is suspended, or its terminal state
    log,              \* network and storage operations issued so far, in order
    outputs,          \* core.setOutput calls so far, in order: <<name, value>>
    failures,         \* core.setFailed calls so far, in order
    warnings,         \* core.warning calls so far, in order
    attempts,         \* HTTP attempts made by the Fetcher
    dl,               \* downloadResult: statusCode, contentLengthHeader
    bytesTransferred, \* the counter of the byte counting stream
    srcLeft,          \* bytes of the body the source stream has not emitted yet
    srcState,         \* "none" | "flowing" | "ended" | "errored"
    wsState,          \* "none" | "open" | "ending" | "finished" | "errored"
    wsBytes,          \* bytes the storage write stream has received
    storeGen,         \* generation of the destination object, 0 when absent
    body,             \* bytes of the body the source URL served to this run
    writtenGen,       \* generation the store gave this run's write, 0: none yet
    prev,             \* what the previous successful invocation produced
    peer,             \* a concurrent invocation on the same bucket and object
    kvInput,          \* parseMetadata: the metadata input given to it
    kvPairs,          \* parseMetadata: a mapping, as a list of pairs, to encode
    outRaw,           \* what parseMetadata(kvInput) gave
    outSemi,          \* what parseMetadata gave for kvPairs in key=value form
    outJson           \* what parseMetadata gave for kvPairs in JSON form

runVars == <<variant, inputs, pc, log, outputs, failures, warnings, attempts,
             dl, bytesTransferred, srcLeft, srcState, wsState, wsBytes, storeGen,
             body, writtenGen, prev, peer>>
kvVars == <<kvInput, kvPairs, outRaw, outSemi, outJson>>
vars == <<runVars, kvVars>>

(***************************************************************************)
(* Bounds of the model.                                                    *)
(***************************************************************************)
MaxBody == 2
MaxDeclared == 2
MaxRawLen == 3
MaxMembers == 2
MaxPairs == 2

(***************************************************************************)
(* Values.                                                                 *)
(***************************************************************************)
Digit(d) ==
    CASE d = 0 -> "0" [] d = 1 -> "1" [] d = 2 -> "2" [] d = 3 -> "3"
      [] d = 4 -> "4" [] d = 5 -> "5" [] d = 6 -> "6" [] d = 7 -> "7"
      [] d = 8 -> "8" [] d = 9 -> "9"

\* Number.prototype.toString() of a non-negative integer
RECURSIVE NatToString(_)
NatToString(n) ==
    IF n < 10 THEN Digit(n) ELSE NatToString(n \div 10) \o Digit(n % 10)

\* an Error object with its message; isError is `instanceof Error`
Err(msg) == [isError |-> TRUE, message |-> msg]

\* what the collaborators can fail with
ExistsErrors == {Err("Forbidden"), Err("getaddrinfo ENOTFOUND storage.googleapis.com")}
TransientFetchErrors == {Err("Request failed with status code 503")}
FatalFetchErrors == {Err("Request failed with status code 404")}
AuthConfigError == Err("auth-token is required for bearer authentication")
WriteErrors == {Err("socket hang up")}
StorageClassErrors == {Err("Insufficient Permission")}
MetadataErrors == {Err("No such object")}

StatusCodes == {200, 204}

\* the inputs the model runs the action with
Bucket == "my-bucket"
Object == "data.json"
AuthInputs ==
    { [authType |-> "none", authToken |-> ""],
      [authType |-> "bearer", authToken |-> ""],
      [authType |-> "bearer", authToken |-> "t0k"] }
InputSpace ==
    [ gcsBucket : {Bucket},
      gcsObject : {Object},
      enableRetry : {"true", "false"},
      ifNotExists : {"true", "false"},
      storageClass : {"", "COLDLINE", "FOO"},
      predefinedAcl : {"", "private", "world"},
      auth : AuthInputs ]

(***************************************************************************)
(* run(): reading the inputs (index.ts:27-47, 216-236).                    *)
(***************************************************************************)
\* a mutant of enableRetry: any non-empty input enables retry
enableRetry_Truthy == inputs.enableRetry # ""

enableRetry == inputs.enableRetry = "true"
ifNotExists == inputs.ifNotExists = "true"
storageClass == IF inputs.storageClass = "" THEN "STANDARD" ELSE inputs.storageClass
predefinedAcl == inputs.predefinedAcl

(***************************************************************************)
(* upload.ts: validation (part_001:84-125).  Each operator gives what the  *)
(* function does: it returns (Returns) or throws an Error (Throws).        *)
(***************************************************************************)
Returns == [threw |-> FALSE, error |-> Err("")]
Throws(e) == [threw |-> TRUE, error |-> e]

validClasses == <<"STANDARD", "NEARLINE", "COLDLINE", "ARCHIVE">>
validAcls == <<"authenticatedRead", "bucketOwnerFullControl", "bucketOwnerRead",
               "private", "projectPrivate", "publicRead">>

\* Array.prototype.includes
Includes(seq, x) == \E i \in 1..Len(seq) : seq[i] = x

\* Array.prototype.join(', ')
RECURSIVE Join(_)
Join(seq) ==
    IF Len(seq) = 0 THEN ""
    ELSE IF Len(seq) = 1 THEN seq[1]
    ELSE seq[1] \o ", " \o Join(Tail(seq))

validateStorageClass(sc) ==
    IF sc = "" THEN Returns
    ELSE IF ~Includes(validClasses, sc)
         THEN Throws(Err("Invalid storage class: " \o sc \o ". Must be one of: "
                         \o Join(validClasses)))
         ELSE Returns

validatePredefinedAcl(acl) ==
    IF acl = "" THEN Returns
    ELSE IF ~Includes(validAcls, acl)
         THEN Throws(Err("Invalid predefined ACL: " \o acl \o ". Must be one of: "
                         \o Join(validAcls)))
         ELSE Returns

\* uploadStreamToGCS, "Validate inputs" (part_001:137-139)
ValidateInputs ==
    IF validateStorageClass(storageClass).threw THEN validateStorageClass(storageClass)
    ELSE validatePredefinedAcl(predefinedAcl)

(***************************************************************************)
(* Failure reporting.                                                      *)
(***************************************************************************)
\* uploadStreamToGCS, catch (part_001:242-247)
WrapUploadError(e) ==
    IF e.isError THEN Err("Failed to upload to GCS: " \o e.message) ELSE e

\* a mutant of FailureMessage: the message of the error is dropped
FailureMessage_Generic(e) == "An unknown error occurred - check logs for details"

\* run(), catch (index.ts:135-199, 309-373): the message given to core.setFailed
FailureMessage(e) ==
    IF e.isError THEN "Action failed: " \o e.message
    ELSE "An unknown error occurred - check logs for details"

\* run() ends in its catch block with error e
Fail(e) ==
    /\ pc' = "Failed"
    /\ failures' = Append(failures, FailureMessage(e))

(***************************************************************************)
(* The initial state: run() has not started.                               *)
(***************************************************************************)
NoDownload == [statusCode |-> 0, contentLengthHeader |-> 0]

\* no call of parseMetadata has been made
Pending == [out |-> [t |-> "pending", v |-> <<>>], warnings |-> <<>>]

\* no invocation has completed before this one
NoPrev == [ran |-> FALSE, generation |-> "", contentLength |-> "", gcsUrl |-> "",
           objectExisted |-> "", body |-> 0]

\* no other invocation is running
NoPeer == [ifNotExists |-> FALSE, pc |-> "None"]

NotStarted ==
    /\ pc = "Init"
    /\ log = <<>>
    /\ outputs = <<>>
    /\ failures = <<>>
    /\ warnings = <<>>
    /\ attempts = 0
    /\ dl = NoDownload
    /\ bytesTransferred = 0
    /\ srcLeft = 0
    /\ srcState = "none"
    /\ wsState = "none"
    /\ wsBytes = 0
    /\ body = 0
    /\ writtenGen = 0
    /\ outRaw = Pending
    /\ outSemi = Pending
    /\ outJson = Pending

Init ==
    /\ variant \in {1, 2}
    /\ inputs \in InputSpace
    /\ storeGen \in {0, 1}
    /\ prev = NoPrev
    /\ peer = NoPeer
    /\ kvInput = <<>>
    /\ kvPairs = <<>>
    /\ NotStarted

(***************************************************************************)
(* Fetcher (download.ts, modelled from the specification, section 4.2).    *)
(***************************************************************************)
MaxAttempts == 3

AuthMisconfigured == inputs.auth.authType = "bearer" /\ inputs.auth.authToken = ""

\* downloadAsStream is called: the request is issued unless the auth
\* configuration is rejected first.  lg is the log so far.
BeginFetch(lg) ==
    IF AuthMisconfigured
    THEN /\ Fail(AuthConfigError)
         /\ log' = Append(lg, "fetch_failed")
         /\ attempts' = attempts
    ELSE /\ pc' = "Fetching"
         /\ log' = Append(lg, "http_request")
         /\ attempts' = attempts + 1
         /\ failures' = failures

(***************************************************************************)
(* run(): start (index.ts:24-92 and 213-256).                              *)
(***************************************************************************)
Start ==
    /\ pc = "Init"
    /\ IF variant = 1 /\ ifNotExists
       THEN /\ pc' = "CheckExistence"
            /\ log' = Append(log, "exists_query")
            /\ UNCHANGED <<attempts, failures>>
       ELSE BeginFetch(log)
    /\ UNCHANGED <<kvVars, body, writtenGen, prev, peer>>
    /\ UNCHANGED <<variant, inputs, outputs, warnings, dl, bytesTransferred,
                   srcLeft, srcState, wsState, wsBytes, storeGen>>

\* a mutant of SkippedOutputs: the generation output is forgotten
SkippedOutputs_NoGeneration ==
    << <<"status-code", "0">>,
       <<"content-length", "0">>,
       <<"gcs-url", "gs://" \o inputs.gcsBucket \o "/" \o inputs.gcsObject>>,
       <<"object-existed", "true">> >>

\* core.setOutput, five times (index.ts:65-69)
SkippedOutputs ==
    << <<"status-code", "0">>,
       <<"content-length", "0">>,
       <<"gcs-url", "gs://" \o inputs.gcsBucket \o "/" \o inputs.gcsObject>>,
       <<"generation", "">>,
       <<"object-existed", "true">> >>

\* a mutant of ExistsFails: objectExists catches the error and returns false
ExistsFails_TakenAsAbsent ==
    /\ pc = "CheckExistence"
    /\ variant = 1
    /\ BeginFetch(Append(log, "exists_error"))
    /\ UNCHANGED <<kvVars, body, writtenGen, prev, peer>>
    /\ UNCHANGED <<variant, inputs, outputs, warnings, dl, bytesTransferred,
                   srcLeft, srcState, wsState, wsBytes, storeGen>>

\* storage.bucket(b).file(o).exists() rejects (index.ts:10-18, 58): run() fails
ExistsFails ==
    /\ pc = "CheckExistence"
    /\ variant = 1
    /\ \E e \in ExistsErrors : Fail(e)
    /\ log' = Append(log, "exists_error")
    /\ UNCHANGED <<kvVars, body, writtenGen, prev, peer>>
    /\ UNCHANGED <<variant, inputs, outputs, warnings, attempts, dl, bytesTransferred,
                   srcLeft, srcState, wsState, wsBytes, storeGen>>

\* exists() answers (index.ts:58-76); the answer is the state of the store
ExistsAnswered ==
    /\ pc = "CheckExistence"
    /\ variant = 1
    /\ LET exists == storeGen > 0
           lg == Append(log, IF exists THEN "exists_true" ELSE "exists_false")
       IN IF exists
          THEN /\ outputs' = outputs \o SkippedOutputs
               /\ pc' = "Done"
               /\ log' = lg
               /\ UNCHANGED <<attempts, failures>>
          ELSE /\ BeginFetch(lg)
               /\ outputs' = outputs
    /\ UNCHANGED <<kvVars, body, writtenGen, prev, peer>>
    /\ UNCHANGED <<variant, inputs, warnings, dl, bytesTransferred,
                   srcLeft, srcState, wsState, wsBytes, storeGen>>

(***************************************************************************)
(* uploadStreamToGCS (part_001:134-248).                                   *)
(***************************************************************************)
\* file.createWriteStream, the 'data' listener and pipe (part_001:199-221);
\* the function is then suspended on uploadPromise.  lg is the log so far.
OpenWriteStream(lg) ==
    /\ log' = lg \o <<"ws_open", "data_listener", "pipe">>
    /\ wsState' = "open"
    /\ pc' = "Uploading"
    /\ failures' = failures

\* a mutant of EnterUploader: the options are not validated
EnterUploader_NoValidation == OpenWriteStream(log)

\* the call of uploadStreamToGCS by the first run() (index.ts:101-111):
\* part_001:134-221, up to `await uploadPromise`
EnterUploader ==
    IF ValidateInputs.threw
    THEN /\ Fail(ValidateInputs.error)
         /\ UNCHANGED <<log, wsState>>
    ELSE OpenWriteStream(log)

\* the call of the two-argument uploadStreamToGCS by the second run()
\* (index.ts:264-274): that uploader is not in the sources; it validates,
\* and with ifNotExists set it asks the store whether the object exists
\* before it opens the write stream.
EnterUploader2 ==
    IF ValidateInputs.threw
    THEN /\ Fail(ValidateInputs.error)
         /\ UNCHANGED <<log, wsState>>
    ELSE IF ifNotExists
         THEN /\ pc' = "UploaderCheckExistence"
              /\ log' = Append(log, "exists_query")
              /\ UNCHANGED <<failures, wsState>>
         ELSE OpenWriteStream(log)

\* downloadAsStream resolves when the response headers arrive: the body is
\* a live stream of `served` bytes, whatever length the header declares
FetchSucceeds ==
    /\ pc = "Fetching"
    /\ \E status \in StatusCodes, declared \in 0..MaxDeclared, served \in 0..MaxBody :
          /\ dl' = [statusCode |-> status, contentLengthHeader |-> declared]
          /\ body' = served
          /\ srcLeft' = served
    /\ srcState' = "open"
    /\ IF variant = 1 THEN EnterUploader ELSE EnterUploader2
    /\ UNCHANGED <<kvVars, writtenGen, prev, peer>>
    /\ UNCHANGED <<variant, inputs, outputs, warnings, attempts, bytesTransferred,
                   wsBytes, storeGen>>

\* a transient failure (network error, 5xx, 429) with attempts left: the
\* Fetcher issues the request again
FetchRetries ==
    /\ pc = "Fetching"
    /\ enableRetry
    /\ attempts < MaxAttempts
    /\ attempts' = attempts + 1
    /\ log' = log \o <<"http_transient_failure", "http_request">>
    /\ UNCHANGED <<kvVars, body, writtenGen, prev, peer>>
    /\ UNCHANGED <<variant, inputs, pc, outputs, failures, warnings, dl,
                   bytesTransferred, srcLeft, srcState, wsState, wsBytes, storeGen>>

\* the Fetcher gives up: a failure that is not transient, or a transient one
\* with retry disabled or exhausted; downloadAsStream rejects
FetchFails ==
    /\ pc = "Fetching"
    /\ \/ \E e \in FatalFetchErrors : Fail(e)
       \/ /\ ~enableRetry \/ attempts >= MaxAttempts
          /\ \E e \in TransientFetchErrors : Fail(e)
    /\ log' = Append(log, "fetch_failed")
    /\ UNCHANGED <<kvVars, body, writtenGen, prev, peer>>
    /\ UNCHANGED <<variant, inputs, outputs, warnings, attempts, dl,
                   bytesTransferred, srcLeft, srcState, wsState, wsBytes, storeGen>>

\* the source emits a chunk of n bytes: the counting stream counts it and
\* pipe() writes it to the write stream
PipeChunk ==
    /\ pc = "Uploading"
    /\ srcState = "open"
    /\ wsState = "open"
    /\ \E n \in 1..srcLeft :
          /\ srcLeft' = srcLeft - n
          /\ bytesTransferred' = bytesTransferred + n
          /\ wsBytes' = wsBytes + n
    /\ UNCHANGED <<kvVars, body, writtenGen, prev, peer>>
    /\ UNCHANGED <<variant, inputs, pc, log, outputs, failures, warnings, attempts,
                   dl, srcState, wsState, storeGen>>

\* a mutant of SourceEnd: the end of the source resolves uploadPromise
SourceEnd_Completes ==
    /\ pc = "Uploading"
    /\ srcState = "open"
    /\ wsState = "open"
    /\ srcLeft = 0
    /\ srcState' = "ended"
    /\ wsState' = "ending"
    /\ IF storageClass # ""
       THEN pc' = "SettingStorageClass" /\ log' = Append(log, "set_storage_class")
       ELSE pc' = "ReadingMetadata" /\ log' = Append(log, "get_metadata")
    /\ UNCHANGED <<kvVars, body, writtenGen, prev, peer>>
    /\ UNCHANGED <<variant, inputs, outputs, failures, warnings, attempts,
                   dl, bytesTransferred, srcLeft, wsBytes, storeGen>>

\* the source ends: pipe() ends the write stream
SourceEnd ==
    /\ pc = "Uploading"
    /\ srcState = "open"
    /\ wsState = "open"
    /\ srcLeft = 0
    /\ srcState' = "ended"
    /\ wsState' = "ending"
    /\ UNCHANGED <<kvVars, body, writtenGen, prev, peer>>
    /\ UNCHANGED <<variant, inputs, pc, log, outputs, failures, warnings, attempts,
                   dl, bytesTransferred, srcLeft, wsBytes, storeGen>>

\* the source stream fails: pipe() does not forward the error to the write
\* stream, which is left open, and uploadPromise stays pending.  No 'error'
\* listener is attached to the stream by run() or uploadStreamToGCS: when
\* download.ts attached none either, the event is thrown as an uncaught
\* exception and the process ends there, outside run().
SourceError ==
    /\ pc = "Uploading"
    /\ srcState = "open"
    /\ srcState' = "errored"
    /\ \E listened \in BOOLEAN : pc' = IF listened THEN pc ELSE "Crashed"
    /\ UNCHANGED <<kvVars, body, writtenGen, prev, peer>>
    /\ UNCHANGED <<variant, inputs, log, outputs, failures, warnings, attempts,
                   dl, bytesTransferred, srcLeft, wsState, wsBytes, storeGen>>

\* a mutant of AfterWrite: the metadata is read with no storage-class update
AfterWrite_MetadataOnly(lg) ==
    /\ pc' = "ReadingMetadata"
    /\ log' = Append(lg, "get_metadata")

\* await file.setStorageClass, or file.getMetadata when no class is given
\* (part_001:223-229).  lg is the log so far.
AfterWrite(lg) ==
    IF storageClass # ""
    THEN /\ pc' = "SettingStorageClass"
         /\ log' = Append(lg, "set_storage_class")
    ELSE /\ pc' = "ReadingMetadata"
         /\ log' = Append(lg, "get_metadata")

\* the write stream emits 'finish' (part_001:217, 221): the store has the
\* object under a new generation
WriteFinish ==
    /\ pc = "Uploading"
    /\ wsState = "ending"
    /\ wsState' = "finished"
    /\ storeGen' = storeGen + 1
    /\ writtenGen' = storeGen + 1
    /\ AfterWrite(Append(log, "ws_finish"))
    /\ UNCHANGED <<kvVars, body, prev, peer>>
    /\ UNCHANGED <<variant, inputs, outputs, failures, warnings, attempts, dl,
                   bytesTransferred, srcLeft, srcState, wsBytes>>

\* a mutant of WriteError: run() downloads again after a failed write
WriteError_Refetches ==
    /\ pc = "Uploading"
    /\ wsState \in {"open", "ending"}
    /\ wsState' = "none"
    /\ pc' = "Fetching"
    /\ log' = log \o <<"ws_error", "http_request">>
    /\ UNCHANGED <<kvVars, body, writtenGen, prev, peer>>
    /\ UNCHANGED <<variant, inputs, outputs, failures, warnings, attempts, dl,
                   bytesTransferred, srcLeft, srcState, wsBytes, storeGen>>

\* the write stream emits 'error' (part_001:216, 242-247)
WriteError ==
    /\ pc = "Uploading"
    /\ wsState \in {"open", "ending"}
    /\ wsState' = "errored"
    /\ \E e \in WriteErrors : Fail(WrapUploadError(e))
    /\ log' = Append(log, "ws_error")
    /\ UNCHANGED <<kvVars, body, writtenGen, prev, peer>>
    /\ UNCHANGED <<variant, inputs, outputs, warnings, attempts, dl,
                   bytesTransferred, srcLeft, srcState, wsBytes, storeGen>>

\* file.setStorageClass resolves (part_001:225-229)
StorageClassSet ==
    /\ pc = "SettingStorageClass"
    /\ pc' = "ReadingMetadata"
    /\ log' = Append(log, "get_metadata")
    /\ UNCHANGED <<kvVars, body, writtenGen, prev, peer>>
    /\ UNCHANGED <<variant, inputs, outputs, failures, warnings, attempts, dl,
                   bytesTransferred, srcLeft, srcState, wsState, wsBytes, storeGen>>

\* file.setStorageClass rejects (part_001:225, 242-247)
StorageClassFails ==
    /\ pc = "SettingStorageClass"
    /\ \E e \in StorageClassErrors : Fail(WrapUploadError(e))
    /\ log' = Append(log, "storage_class_error")
    /\ UNCHANGED <<kvVars, body, writtenGen, prev, peer>>
    /\ UNCHANGED <<variant, inputs, outputs, warnings, attempts, dl,
                   bytesTransferred, srcLeft, srcState, wsState, wsBytes, storeGen>>

\* a mutant of GenerationString: the metageneration, 1 after every write, is
\* read instead of the generation
GenerationString_Metageneration(g) == IF g = 0 THEN "" ELSE "1"

\* String(metadata.generation || '') (part_001:230)
GenerationString(g) == IF g = 0 THEN "" ELSE NatToString(g)

\* Reconciling (index.ts:117-125, 290-298): the warning, if any
LengthWarning(actual, header) ==
    IF header > 0 /\ actual # header
    THEN << "Bytes transferred (" \o NatToString(actual)
            \o ") differs from Content-Length header (" \o NatToString(header) \o ")" >>
    ELSE <<>>

\* a mutant of TransferOutputs: content-length is taken from the header
TransferOutputs_FromHeader(result, actual) ==
    << <<"status-code", NatToString(dl.statusCode)>>,
       <<"content-length", NatToString(dl.contentLengthHeader)>>,
       <<"gcs-url", result.gcsUrl>>,
       <<"generation", result.generation>>,
       <<"object-existed", "false">> >>

\* core.setOutput, five times (index.ts:128-132, 301-305)
TransferOutputs(result, actual) ==
    << <<"status-code", NatToString(dl.statusCode)>>,
       <<"content-length", NatToString(actual)>>,
       <<"gcs-url", result.gcsUrl>>,
       <<"generation", result.generation>>,
       <<"object-existed", "false">> >>

\* file.getMetadata resolves: uploadStreamToGCS returns (part_001:229-241)
\* and run() reconciles and writes its outputs (index.ts:113-134, 286-308)
MetadataRead ==
    /\ pc = "ReadingMetadata"
    /\ LET result == [generation |-> GenerationString(storeGen),
                      gcsUrl |-> "gs://" \o inputs.gcsBucket \o "/" \o inputs.gcsObject,
                      objectExisted |-> FALSE]
           actualBytesTransferred == bytesTransferred
       IN /\ warnings' = warnings
                  \o LengthWarning(actualBytesTransferred, dl.contentLengthHeader)
          /\ outputs' = outputs \o TransferOutputs(result, actualBytesTransferred)
    /\ pc' = "Done"
    /\ UNCHANGED <<kvVars, body, writtenGen, prev, peer>>
    /\ UNCHANGED <<variant, inputs, log, failures, attempts, dl, bytesTransferred,
                   srcLeft, srcState, wsState, wsBytes, storeGen>>

\* file.getMetadata rejects (part_001:229, 242-247)
MetadataFails ==
    /\ pc = "ReadingMetadata"
    /\ \E e \in MetadataErrors : Fail(WrapUploadError(e))
    /\ log' = Append(log, "metadata_error")
    /\ UNCHANGED <<kvVars, body, writtenGen, prev, peer>>
    /\ UNCHANGED <<variant, inputs, outputs, warnings, attempts, dl,
                   bytesTransferred, srcLeft, srcState, wsState, wsBytes, storeGen>>

(***************************************************************************)
(* The second run(): the existence check made by the uploader it calls.    *)
(***************************************************************************)
\* core.setOutput, five times (index.ts:281-285)
SkippedUploadOutputs(result) ==
    << <<"status-code", NatToString(dl.statusCode)>>,
       <<"content-length", "0">>,
       <<"gcs-url", result.gcsUrl>>,
       <<"generation", result.generation>>,
       <<"object-existed", "true">> >>

UploaderExistsFails ==
    /\ pc = "UploaderCheckExistence"
    /\ \E e \in ExistsErrors : Fail(e)
    /\ log' = Append(log, "exists_error")
    /\ UNCHANGED <<kvVars, body, writtenGen, prev, peer>>
    /\ UNCHANGED <<variant, inputs, outputs, warnings, attempts, dl, bytesTransferred,
                   srcLeft, srcState, wsState, wsBytes, storeGen>>

UploaderExistsAnswered ==
    /\ pc = "UploaderCheckExistence"
    /\ LET exists == storeGen > 0
           lg == Append(log, IF exists THEN "exists_true" ELSE "exists_false")
           result == [generation |-> "",
                      gcsUrl |-> "gs://" \o inputs.gcsBucket \o "/" \o inputs.gcsObject,
                      objectExisted |-> TRUE]
       IN IF exists
          THEN /\ outputs' = outputs \o SkippedUploadOutputs(result)
               /\ pc' = "Done"
               /\ log' = lg
               /\ UNCHANGED <<failures, wsState>>
          ELSE /\ OpenWriteStream(lg)
               /\ outputs' = outputs
    /\ UNCHANGED <<kvVars, body, writtenGen, prev, peer>>
    /\ UNCHANGED <<variant, inputs, warnings, attempts, dl, bytesTransferred,
                   srcLeft, srcState, wsBytes, storeGen>>

Next ==
    \/ Start
    \/ ExistsFails
    \/ ExistsAnswered
    \/ FetchSucceeds
    \/ FetchRetries
    \/ FetchFails
    \/ PipeChunk
    \/ SourceEnd
    \/ SourceError
    \/ WriteFinish
    \/ WriteError
    \/ StorageClassSet
    \/ StorageClassFails
    \/ MetadataRead
    \/ MetadataFails
    \/ UploaderExistsFails
    \/ UploaderExistsAnswered

Spec == Init /\ [][Next]_vars

(***************************************************************************)
(* Progress.  Every operation run() awaits settles, one way or the other,  *)
(* and a stream that is flowing emits its next chunk or its end.  A        *)
(* failure of the source stream or of the write stream may happen and      *)
(* need not: SourceError and WriteError are under no fairness.             *)
(***************************************************************************)
Settles ==
    \/ Start
    \/ ExistsFails
    \/ ExistsAnswered
    \/ FetchSucceeds
    \/ FetchRetries
    \/ FetchFails
    \/ PipeChunk
    \/ SourceEnd
    \/ WriteFinish
    \/ StorageClassSet
    \/ StorageClassFails
    \/ MetadataRead
    \/ MetadataFails
    \/ UploaderExistsFails
    \/ UploaderExistsAnswered

SpecLive == Spec /\ WF_vars(Settles)

(***************************************************************************)
(* Two concurrent invocations on the same bucket and object.  The other    *)
(* invocation is a process of its own that runs the same run(); of its     *)
(* steps the model keeps those that read or write the store: its           *)
(* existence query (index.ts:55-76) and the end of its write               *)
(* (part_001:215-221).                                                     *)
(***************************************************************************)
\* the other invocation starts, with or without if-not-exists
PeerStarts ==
    /\ peer.pc = "None"
    /\ \E b \in BOOLEAN :
          peer' = [ifNotExists |-> b,
                   pc |-> IF b THEN "CheckExistence" ELSE "Uploading"]
    /\ UNCHANGED <<kvVars, variant, inputs, pc, log, outputs, failures, warnings,
                   attempts, dl, bytesTransferred, srcLeft, srcState, wsState,
                   wsBytes, storeGen, body, writtenGen, prev>>

\* exists() answers the other invocation: it skips or goes on to transfer
PeerExistsAnswered ==
    /\ peer.pc = "CheckExistence"
    /\ peer' = [peer EXCEPT !.pc = IF storeGen > 0 THEN "Skipped" ELSE "Uploading"]
    /\ UNCHANGED <<kvVars, variant, inputs, pc, log, outputs, failures, warnings,
                   attempts, dl, bytesTransferred, srcLeft, srcState, wsState,
                   wsBytes, storeGen, body, writtenGen, prev>>

\* the write stream of the other invocation emits 'finish': the store has
\* the object under a new generation
PeerWriteFinish ==
    /\ peer.pc = "Uploading"
    /\ peer' = [peer EXCEPT !.pc = "Done"]
    /\ storeGen' = storeGen + 1
    /\ UNCHANGED <<kvVars, variant, inputs, pc, log, outputs, failures, warnings,
                   attempts, dl, bytesTransferred, srcLeft, srcState, wsState,
                   wsBytes, body, writtenGen, prev>>

NextConcurrent ==
    \/ Next
    \/ PeerStarts
    \/ PeerExistsAnswered
    \/ PeerWriteFinish

SpecConcurrent == Init /\ [][NextConcurrent]_vars

(***************************************************************************)
(* Two successive invocations: the action is run again (index.ts:203, 377) *)
(* with the same inputs after an invocation that ended in Done.  The new   *)
(* process starts run() afresh; the store keeps the object.                *)
(***************************************************************************)
\* the outputs of the action and what core.setOutput recorded for them
OutputNames == {"status-code", "content-length", "gcs-url", "generation", "object-existed"}
Written(name) == {i \in 1..Len(outputs) : outputs[i][1] = name}
OutputValue(name) == outputs[CHOOSE i \in Written(name) : TRUE][2]

Rerun ==
    /\ pc = "Done"
    /\ ~prev.ran
    /\ prev' = [ran |-> TRUE,
                generation |-> OutputValue("generation"),
                contentLength |-> OutputValue("content-length"),
                gcsUrl |-> OutputValue("gcs-url"),
                objectExisted |-> OutputValue("object-existed"),
                body |-> body]
    /\ pc' = "Init"
    /\ log' = <<>>
    /\ outputs' = <<>>
    /\ failures' = <<>>
    /\ warnings' = <<>>
    /\ attempts' = 0
    /\ dl' = NoDownload
    /\ bytesTransferred' = 0
    /\ srcLeft' = 0
    /\ srcState' = "none"
    /\ wsState' = "none"
    /\ wsBytes' = 0
    /\ body' = 0
    /\ writtenGen' = 0
    /\ UNCHANGED <<kvVars, variant, inputs, storeGen, peer>>

NextSuccessive ==
    \/ Next
    \/ Rerun

SpecSuccessive == Init /\ [][NextSuccessive]_vars

(***************************************************************************)
(* parseKeyValuePairs (part_001:27-71).  A string is a sequence of         *)
(* characters; a JavaScript value is a record [t, v] with t its kind.      *)
(***************************************************************************)
Undefined == [t |-> "undefined", v |-> <<>>]
JString(s) == [t |-> "string", v |-> s]
JNumber(s) == [t |-> "number", v |-> s]
JObject(m) == [t |-> "object", v |-> m]
JArray(a) == [t |-> "array", v |-> a]
JLiteral(w) == [t |-> (IF w = <<"n", "u", "l", "l">> THEN "null" ELSE "boolean"), v |-> w]

\* the typeof operator
TypeOf(x) ==
    CASE x.t = "undefined" -> "undefined"
      [] x.t = "string" -> "string"
      [] x.t = "number" -> "number"
      [] x.t = "boolean" -> "boolean"
      [] OTHER -> "object"

\* the text of a string, for messages
RECURSIVE Text(_)
Text(s) == IF s = <<>> THEN "" ELSE Head(s) \o Text(Tail(s))

\* String.prototype.trim
IsSpace(c) == c \in {" ", "\t", "\n", "\r"}

RECURSIVE TrimStart(_)
TrimStart(s) == IF s # <<>> /\ IsSpace(Head(s)) THEN TrimStart(Tail(s)) ELSE s

RECURSIVE TrimEnd(_)
TrimEnd(s) ==
    IF s # <<>> /\ IsSpace(s[Len(s)]) THEN TrimEnd(SubSeq(s, 1, Len(s) - 1)) ELSE s

Trim(s) == TrimEnd(TrimStart(s))

\* String.prototype.indexOf of a character: from 0, -1 when there is none
IndexOf(s, c) ==
    IF \E i \in 1..Len(s) : s[i] = c
    THEN (CHOOSE i \in 1..Len(s) : s[i] = c /\ \A j \in 1..(i - 1) : s[j] # c) - 1
    ELSE -1

\* String.prototype.substring(from, to), from 0, to excluded
Substring(s, from, to) == SubSeq(s, from + 1, to)

\* String.prototype.split on a character
RECURSIVE Split(_, _)
Split(s, sep) ==
    LET i == IndexOf(s, sep)
    IN IF i = -1 THEN <<s>>
       ELSE <<Substring(s, 0, i)>> \o Split(Substring(s, i + 1, Len(s)), sep)

\* String.prototype.startsWith of a character
StartsWith(s, c) == s # <<>> /\ Head(s) = c

\* an object with property k defined as x (CreateDataProperty)
DefineProperty(m, k, x) == [y \in (DOMAIN m) \cup {k} |-> IF y = k THEN x ELSE m[y]]

ProtoKey == <<"_", "_", "p", "r", "o", "t", "o", "_", "_">>

\* the assignment obj[k] = x of a string x to an object literal (part_001:66):
\* the key __proto__ reaches the setter of Object.prototype, which ignores
\* a value that is neither an object nor null
SetProperty(m, k, x) == IF k = ProtoKey THEN m ELSE DefineProperty(m, k, x)

(***************************************************************************)
(* JSON.parse (part_001:37).  Each parser takes the text and a position    *)
(* and gives [ok, v, i]: whether it matched, the value, the next position. *)
(* Numbers are the unsigned integers; \u escapes are not modelled.         *)
(***************************************************************************)
JFail == [ok |-> FALSE, v |-> Undefined, i |-> 0]
JOk(x, i) == [ok |-> TRUE, v |-> x, i |-> i]

Digits == {"0", "1", "2", "3", "4", "5", "6", "7", "8", "9"}
Literals == {<<"t", "r", "u", "e">>, <<"f", "a", "l", "s", "e">>, <<"n", "u", "l", "l">>}

RECURSIVE SkipWs(_, _)
SkipWs(s, i) == IF i <= Len(s) /\ IsSpace(s[i]) THEN SkipWs(s, i + 1) ELSE i

Unescape(c) ==
    CASE c = "t" -> "\t"
      [] c = "n" -> "\n"
      [] c = "r" -> "\r"
      [] OTHER -> c

\* the characters of a string literal after its opening quote
RECURSIVE StringBody(_, _, _)
StringBody(s, i, acc) ==
    IF i > Len(s) THEN JFail
    ELSE IF s[i] = "\"" THEN JOk(JString(acc), i + 1)
    ELSE IF s[i] = "\\"
         THEN IF i + 1 <= Len(s) /\ s[i + 1] \in {"\"", "\\", "/", "t", "n", "r"}
              THEN StringBody(s, i + 2, Append(acc, Unescape(s[i + 1])))
              ELSE JFail
    ELSE IF s[i] \in {"\t", "\n", "\r"} THEN JFail
    ELSE StringBody(s, i + 1, Append(acc, s[i]))

RECURSIVE DigitsEnd(_, _)
DigitsEnd(s, i) == IF i <= Len(s) /\ s[i] \in Digits THEN DigitsEnd(s, i + 1) ELSE i

NumberAt(s, i) ==
    LET j == IF s[i] = "0" THEN i + 1 ELSE DigitsEnd(s, i)
    IN JOk(JNumber(SubSeq(s, i, j - 1)), j)

\* whether the word w stands at position i of s
WordAt(s, i, w) == i + Len(w) - 1 <= Len(s) /\ SubSeq(s, i, i + Len(w) - 1) = w

LiteralAt(s, i) ==
    IF \E w \in Literals : WordAt(s, i, w)
    THEN LET w == CHOOSE x \in Literals : WordAt(s, i, x)
         IN JOk(JLiteral(w), i + Len(w))
    ELSE JFail

RECURSIVE ValueAt(_, _)
RECURSIVE Members(_, _, _)
RECURSIVE Elements(_, _, _)

\* a value, after white space
ValueAt(s, i0) ==
    LET i == SkipWs(s, i0)
    IN IF i > Len(s) THEN JFail
       ELSE IF s[i] = "{"
            THEN IF SkipWs(s, i + 1) <= Len(s) /\ s[SkipWs(s, i + 1)] = "}"
                 THEN JOk(JObject(<<>>), SkipWs(s, i + 1) + 1)
                 ELSE Members(s, i + 1, <<>>)
       ELSE IF s[i] = "["
            THEN IF SkipWs(s, i + 1) <= Len(s) /\ s[SkipWs(s, i + 1)] = "]"
                 THEN JOk(JArray(<<>>), SkipWs(s, i + 1) + 1)
                 ELSE Elements(s, i + 1, <<>>)
       ELSE IF s[i] = "\"" THEN StringBody(s, i + 1, <<>>)
       ELSE IF s[i] \in Digits THEN NumberAt(s, i)
       ELSE LiteralAt(s, i)

\* the members of an object from position i0, added to m: a later member
\* replaces an earlier one of the same name
Members(s, i0, m) ==
    LET i == SkipWs(s, i0)
        key == IF i <= Len(s) /\ s[i] = "\"" THEN StringBody(s, i + 1, <<>>) ELSE JFail
        colon == SkipWs(s, key.i)
        val == IF key.ok /\ colon <= Len(s) /\ s[colon] = ":"
               THEN ValueAt(s, colon + 1) ELSE JFail
        next == SkipWs(s, val.i)
        m2 == DefineProperty(m, key.v.v, val.v)
    IN IF ~val.ok \/ next > Len(s) THEN JFail
       ELSE IF s[next] = "," THEN Members(s, next + 1, m2)
       ELSE IF s[next] = "}" THEN JOk(JObject(m2), next + 1)
       ELSE JFail

\* the elements of an array from position i0, added to a
Elements(s, i0, a) ==
    LET val == ValueAt(s, i0)
        next == SkipWs(s, val.i)
    IN IF ~val.ok \/ next > Len(s) THEN JFail
       ELSE IF s[next] = "," THEN Elements(s, next + 1, Append(a, val.v))
       ELSE IF s[next] = "]" THEN JOk(JArray(Append(a, val.v)), next + 1)
       ELSE JFail

\* JSON.parse(s): ok is FALSE when it throws a SyntaxError
JsonParse(s) ==
    LET r == ValueAt(s, 1)
    IN IF r.ok /\ SkipWs(s, r.i) > Len(s) THEN r ELSE JFail

\* Array.isArray
IsArray(x) == x.t = "array"

\* the loop over the pairs (part_001:52-68): the object built and the warnings
RECURSIVE PairsLoop(_, _, _, _)
PairsLoop(pairs, name, result, warns) ==
    IF pairs = <<>> THEN [result |-> result, warnings |-> warns]
    ELSE LET trimmedPair == Trim(Head(pairs))
             separatorIndex == IndexOf(trimmedPair, "=")
             key == Trim(Substring(trimmedPair, 0, separatorIndex))
             value == Trim(Substring(trimmedPair, separatorIndex + 1, Len(trimmedPair)))
         IN IF trimmedPair = <<>> THEN PairsLoop(Tail(pairs), name, result, warns)
            ELSE IF separatorIndex = -1
                 THEN PairsLoop(Tail(pairs), name, result,
                                Append(warns, "Skipping invalid " \o name \o " pair: "
                                              \o Text(trimmedPair)))
            ELSE IF key # <<>>
                 THEN PairsLoop(Tail(pairs), name,
                                SetProperty(result, key, JString(value)), warns)
            ELSE PairsLoop(Tail(pairs), name, result, warns)

\* the semicolon-separated format (part_001:48-70), with the warnings so far
SemicolonFormat(trimmed, name, warns) ==
    LET r == PairsLoop(Split(trimmed, ";"), name, <<>>, warns)
    IN [out |-> IF DOMAIN r.result # {} THEN JObject(r.result) ELSE Undefined,
        warnings |-> r.warnings]

\* parseKeyValuePairs(input, name): what it returns and the warnings it logs
parseKeyValuePairs(input, name) ==
    IF input = <<>> \/ Trim(input) = <<>>
    THEN [out |-> Undefined, warnings |-> <<>>]
    ELSE LET trimmed == Trim(input)
             parsed == JsonParse(trimmed)
         IN IF StartsWith(trimmed, "{")
            THEN IF parsed.ok
                 THEN IF TypeOf(parsed.v) # "object" \/ IsArray(parsed.v)
                      THEN [out |-> Undefined,
                            warnings |-> <<name \o " must be a JSON object">>]
                      ELSE [out |-> parsed.v, warnings |-> <<>>]
                 ELSE SemicolonFormat(trimmed, name,
                                      <<"Failed to parse " \o name \o " as JSON">>)
            ELSE SemicolonFormat(trimmed, name, <<>>)

\* parseMetadata (part_001:77-79)
parseMetadata(metadataInput) == parseKeyValuePairs(metadataInput, "metadata")

(***************************************************************************)
(* The metadata inputs parseMetadata is applied to (index.ts:44, 51).      *)
(***************************************************************************)
RawAlphabet == {"a", "=", ";", " ", "{"}

\* the strings over alphabet of length n
RECURSIVE StringsOfLen(_, _)
StringsOfLen(alphabet, n) ==
    IF n = 0 THEN {<<>>}
    ELSE {Append(s, c) : s \in StringsOfLen(alphabet, n - 1), c \in alphabet}

RawInputs == UNION {StringsOfLen(RawAlphabet, n) : n \in 0..MaxRawLen}

\* JSON texts: objects of up to MaxMembers members, and other values
Quote == <<"\"">>
ValueTexts ==
    { Quote \o <<"1">> \o Quote, <<"1">>, <<"{", "}">>, <<"[", "1", "]">>,
      <<"n", "u", "l", "l">>, <<"{">> \o Quote \o <<"a">> \o Quote \o <<":">>
                                \o Quote \o <<"1">> \o Quote \o <<"}">> }
MemberTexts == {Quote \o k \o Quote \o <<":">> \o x : k \in {<<"a">>, <<"b">>}, x \in ValueTexts}

RECURSIVE MemberLists(_)
MemberLists(n) ==
    IF n = 0 THEN {<<>>}
    ELSE {<<m>> \o l : m \in MemberTexts, l \in MemberLists(n - 1)}

RECURSIVE JoinTexts(_, _)
JoinTexts(texts, sep) ==
    IF texts = <<>> THEN <<>>
    ELSE IF Len(texts) = 1 THEN texts[1]
    ELSE texts[1] \o sep \o JoinTexts(Tail(texts), sep)

JsonInputs ==
    ValueTexts
    \cup {<<"{">> \o JoinTexts(l, <<",">>) \o <<"}">> :
             l \in UNION {MemberLists(n) : n \in 0..MaxMembers}}
    \cup {<<" ", "{">> \o m \o <<"}", " ">> : m \in MemberTexts}
    \cup {<<"{">> \o m : m \in MemberTexts}

\* mappings of strings, as lists of pairs with distinct keys: the keys are not
\* empty; keys and values hold no ';', no '=' and no white space at their ends
PairKeys == {<<"a">>, <<"b">>, <<"{", "a">>, ProtoKey}
PairValues == {<<"1">>, <<>>, <<"x", " ", "y">>}

RECURSIVE PairListsOfLen(_)
PairListsOfLen(n) ==
    IF n = 0 THEN {<<>>}
    ELSE {Append(l, <<k, x>>) :
             l \in PairListsOfLen(n - 1), k \in PairKeys, x \in PairValues}

PairLists ==
    {l \in UNION {PairListsOfLen(n) : n \in 1..MaxPairs} :
        \A i, j \in 1..Len(l) : l[i][1] = l[j][1] => i = j}

\* the encoding "k1=v1; k2=v2; ..." of a list of pairs
SemicolonForm(pairs) ==
    JoinTexts([i \in 1..Len(pairs) |-> pairs[i][1] \o <<"=">> \o pairs[i][2]], <<";", " ">>)

\* a string as a JSON string literal
RECURSIVE Escaped(_)
Escaped(str) ==
    IF str = <<>> THEN <<>>
    ELSE (IF Head(str) \in {"\"", "\\"} THEN <<"\\", Head(str)>> ELSE <<Head(str)>>)
         \o Escaped(Tail(str))

Quoted(str) == Quote \o Escaped(str) \o Quote

\* the encoding {"k1":"v1","k2":"v2",...} of a list of pairs
JsonForm(pairs) ==
    <<"{">>
    \o JoinTexts([i \in 1..Len(pairs) |->
                     Quoted(pairs[i][1]) \o <<":">> \o Quoted(pairs[i][2])], <<",">>)
    \o <<"}">>

\* the mapping a list of pairs stands for
MappingOf(pairs) ==
    [k \in {pairs[i][1] : i \in 1..Len(pairs)} |->
        JString(pairs[CHOOSE i \in 1..Len(pairs) : pairs[i][1] = k][2])]

InitParse ==
    /\ variant = 1
    /\ inputs \in {i \in InputSpace : i.enableRetry = "false" /\ i.ifNotExists = "false"
                                      /\ i.storageClass = "" /\ i.predefinedAcl = ""
                                      /\ i.auth.authType = "none"}
    /\ storeGen = 0
    /\ prev = NoPrev
    /\ peer = NoPeer
    /\ \/ kvInput \in RawInputs \cup JsonInputs /\ kvPairs = <<>>
       \/ kvInput = <<>> /\ kvPairs \in PairLists
    /\ NotStarted

\* run() parses the metadata input (index.ts:51)
ParseInput ==
    /\ pc = "Init"
    /\ kvPairs = <<>>
    /\ outRaw = Pending
    /\ outRaw' = parseMetadata(kvInput)
    /\ UNCHANGED <<runVars, kvInput, kvPairs, outSemi, outJson>>

\* run() parses the key=value form of the mapping (index.ts:51)
ParseSemicolonForm ==
    /\ pc = "Init"
    /\ kvPairs # <<>>
    /\ outSemi = Pending
    /\ outSemi' = parseMetadata(SemicolonForm(kvPairs))
    /\ UNCHANGED <<runVars, kvInput, kvPairs, outRaw, outJson>>

\* run() parses the JSON form of the mapping (index.ts:51)
ParseJsonForm ==
    /\ pc = "Init"
    /\ kvPairs # <<>>
    /\ outJson = Pending
    /\ outJson' = parseMetadata(JsonForm(kvPairs))
    /\ UNCHANGED <<runVars, kvInput, kvPairs, outRaw, outSemi>>

NextParse ==
    \/ ParseInput
    \/ ParseSemicolonForm
    \/ ParseJsonForm

SpecParse == InitParse /\ [][NextParse]_vars

(***************************************************************************)
(* Properties.                                                             *)
(***************************************************************************)
Has(ev) == \E i \in 1..Len(log) : log[i] = ev
Count(ev) == Cardinality({i \in 1..Len(log) : log[i] = ev})
\* the position of the first ev in the log; Len(log) + 1 when there is none
First(ev) ==
    IF Has(ev) THEN CHOOSE i \in 1..Len(log) : log[i] = ev /\ \A j \in 1..(i - 1) : log[j] # ev
    ELSE Len(log) + 1

\* C1: in a run with if-not-exists=true whose existence query answers that the
\* object exists, no HTTP request is issued, no upload is started, and the run
\* ends with status-code "0", content-length "0", the gs:// url, an empty
\* generation and object-existed "true".
C1_SkipIssuesNoRequest ==
    (inputs.ifNotExists = "true" /\ Has("exists_true")) =>
        /\ ~Has("http_request")
        /\ ~Has("ws_open")
        /\ pc = "Done"
        /\ outputs = << <<"status-code", "0">>,
                        <<"content-length", "0">>,
                        <<"gcs-url", "gs://my-bucket/data.json">>,
                        <<"generation", "">>,
                        <<"object-existed", "true">> >>

\* C1, restricted to the run() of index.ts:24
C1_FirstRunSkipIssuesNoRequest == variant = 1 => C1_SkipIssuesNoRequest

\* C2: the outputs written are none or the five outputs, each once; outputs
\* are written only in Done, and a failed run has written none.
C2_OutputsAllOrNothing ==
    /\ \/ outputs = <<>>
       \/ /\ Len(outputs) = 5
          /\ \A n \in OutputNames : Cardinality(Written(n)) = 1
    /\ outputs # <<>> => pc = "Done"
    /\ pc = "Done" => outputs # <<>>
    /\ pc = "Failed" => outputs = <<>> /\ Len(failures) = 1

C2_Witness ==
    /\ pc = "Done"
    /\ Has("ws_finish")
    /\ Len(outputs) = 5

\* C3: after a transfer that was not skipped, content-length is the count of
\* the byte counting stream when the upload completed, whatever length the
\* header declared; a declared length that differs gives a warning and the run
\* is Done, not Failed.
C3_ContentLengthIsCountedBytes ==
    /\ (pc = "Done" /\ Has("ws_finish")) =>
          /\ OutputValue("content-length") = NatToString(bytesTransferred)
          /\ bytesTransferred = wsBytes
          /\ srcLeft = 0
          /\ Len(warnings) = (IF dl.contentLengthHeader > 0
                                  /\ dl.contentLengthHeader # bytesTransferred
                              THEN 1 ELSE 0)
    /\ (pc = "Failed" /\ Has("get_metadata")) =>
          \E e \in MetadataErrors :
              failures = << "Action failed: Failed to upload to GCS: " \o e.message >>

C3_Witness ==
    /\ pc = "Done"
    /\ Has("ws_finish")
    /\ dl.contentLengthHeader > 0
    /\ bytesTransferred > 0
    /\ dl.contentLengthHeader # bytesTransferred

\* C4: a run whose storage-class is none of the four classes fails with the
\* validation error before any network request: no HTTP request and no upload
\* has been made.
C4_InvalidClassFailsBeforeNetwork ==
    (inputs.storageClass \notin {"", "STANDARD", "NEARLINE", "COLDLINE", "ARCHIVE"}) =>
        /\ ~Has("http_request")
        /\ ~Has("ws_open")
        /\ pc \notin {"Done", "Uploading", "SettingStorageClass", "ReadingMetadata"}

\* C5: with if-not-exists=true the existence query is issued and answered
\* before the HTTP request to the source URL is issued.
C5_ExistenceBeforeFetch ==
    (inputs.ifNotExists = "true" /\ Has("http_request")) =>
        /\ First("exists_query") < First("http_request")
        /\ First("exists_false") < First("http_request")

\* C5, restricted to the run() of index.ts:24
C5_FirstRunExistenceBeforeFetch == variant = 1 => C5_ExistenceBeforeFetch

\* C6: a failed existence query ends the run in Failed: it is not taken for
\* "does not exist"; no HTTP request and no upload follow it and no output is
\* written.
C6_ExistenceFailureFails ==
    Has("exists_error") =>
        /\ pc = "Failed"
        /\ log[Len(log)] = "exists_error"
        /\ Count("exists_error") = 1
        /\ ~Has("exists_false")
        /\ ~Has("ws_open")
        /\ variant = 1 => ~Has("http_request")
        /\ outputs = <<>>
        /\ \E e \in ExistsErrors : failures = << "Action failed: " \o e.message >>

C6_Witness ==
    /\ variant = 1
    /\ Has("exists_error")
    /\ pc = "Failed"

\* C7: when the fetch fails no upload is attempted: no write stream is opened,
\* no storage-class update and no metadata read is issued; the run is Failed
\* with the message of the fetch error.
C7_FetchFailurePreventsUpload ==
    Has("fetch_failed") =>
        /\ pc = "Failed"
        /\ log[Len(log)] = "fetch_failed"
        /\ ~Has("ws_open")
        /\ ~Has("set_storage_class")
        /\ ~Has("get_metadata")
        /\ wsState = "none"
        /\ outputs = <<>>
        /\ \E e \in TransientFetchErrors \cup FatalFetchErrors \cup {AuthConfigError} :
              failures = << "Action failed: " \o e.message >>

C7_Witness ==
    /\ Has("fetch_failed")
    /\ Has("http_request")
    /\ pc = "Failed"

IsStringMapping(x) == x.t = "object" /\ \A k \in DOMAIN x.v : x.v[k].t = "string"

\* C9: parseKeyValuePairs returns absent or a mapping whose keys and values
\* are all strings; a JSON input that parses to anything but a flat object of
\* strings is treated as absent.
C9_AbsentOrStringMapping ==
    outRaw # Pending =>
        /\ outRaw.out = Undefined \/ IsStringMapping(outRaw.out)
        /\ (JsonParse(Trim(kvInput)).ok /\ ~IsStringMapping(JsonParse(Trim(kvInput)).v))
              => outRaw.out = Undefined

\* the semicolon rules, stated on the segments: a segment counts when it has
\* an '=' and a key before it; the last segment of a key gives its value
SegmentKey(seg) == Trim(Substring(Trim(seg), 0, IndexOf(Trim(seg), "=")))
SegmentValue(seg) == Trim(Substring(Trim(seg), IndexOf(Trim(seg), "=") + 1, Len(Trim(seg))))
SemicolonRules(str) ==
    LET segs == Split(str, ";")
        counted == {i \in 1..Len(segs) :
                       IndexOf(Trim(segs[i]), "=") # -1 /\ SegmentKey(segs[i]) # <<>>}
        last(k) == CHOOSE i \in counted :
                       /\ SegmentKey(segs[i]) = k
                       /\ \A j \in counted : SegmentKey(segs[j]) = k => j <= i
    IN IF counted = {} THEN Undefined
       ELSE JObject([k \in {SegmentKey(segs[i]) : i \in counted} |->
                        JString(SegmentValue(segs[last(k)]))])

\* C10: the key=value form and the JSON form of a mapping of strings both
\* parse to that mapping; an input that starts with '{' and is not JSON is
\* parsed by the semicolon rules.
C10_FormsParseToTheMapping ==
    /\ outSemi # Pending => outSemi.out = JObject(MappingOf(kvPairs))
    /\ outJson # Pending => outJson.out = JObject(MappingOf(kvPairs))
    /\ (outRaw # Pending /\ StartsWith(Trim(kvInput), "{") /\ ~JsonParse(Trim(kvInput)).ok)
          => outRaw.out = SemicolonRules(Trim(kvInput))

\* C10 for the mappings that have no key __proto__ and whose key=value form
\* is not itself a JSON text
C10_WithoutProtoKey ==
    (/\ \A i \in 1..Len(kvPairs) : kvPairs[i][1] # ProtoKey
     /\ ~JsonParse(SemicolonForm(kvPairs)).ok) => C10_FormsParseToTheMapping

\* C11: two successive successful transfers of the same content to the same
\* bucket and object, with if-not-exists=false, give two different generation
\* outputs and the same content-length and gcs-url outputs.
C11_SuccessiveTransfers ==
    (/\ prev.ran
     /\ prev.objectExisted = "false"
     /\ inputs.ifNotExists = "false"
     /\ pc = "Done"
     /\ prev.body = body) =>
        /\ OutputValue("object-existed") = "false"
        /\ OutputValue("generation") # prev.generation
        /\ OutputValue("content-length") = prev.contentLength
        /\ OutputValue("gcs-url") = prev.gcsUrl

C11_Witness ==
    /\ prev.ran
    /\ prev.objectExisted = "false"
    /\ inputs.ifNotExists = "false"
    /\ pc = "Done"
    /\ Has("ws_finish")
    /\ body > 0
    /\ prev.body = body

\* C12: when storageClass is set and is none of the four classes, or
\* predefinedAcl is set and is none of the six presets, uploadStreamToGCS
\* fails before any storage operation: no write stream is opened, no
\* storage-class update and no metadata read is issued, and no data listener
\* is attached to the source stream.
C12_InvalidOptionFailsBeforeStorage ==
    (\/ storageClass \notin {"", "STANDARD", "NEARLINE", "COLDLINE", "ARCHIVE"}
     \/ predefinedAcl \notin {"", "authenticatedRead", "bucketOwnerFullControl",
                              "bucketOwnerRead", "private", "projectPrivate",
                              "publicRead"}) =>
        /\ ~Has("ws_open")
        /\ ~Has("data_listener")
        /\ ~Has("pipe")
        /\ ~Has("set_storage_class")
        /\ ~Has("get_metadata")
        /\ variant = 2 => ~Has("exists_query")
        /\ wsState = "none"
        /\ bytesTransferred = 0
        /\ writtenGen = 0
        /\ dl # NoDownload =>
              /\ pc = "Failed"
              /\ \/ failures = << "Action failed: Invalid storage class: "
                                   \o storageClass
                                   \o ". Must be one of: STANDARD, NEARLINE, COLDLINE, ARCHIVE" >>
                 \/ failures = << "Action failed: Invalid predefined ACL: "
                                   \o predefinedAcl
                                   \o ". Must be one of: authenticatedRead, bucketOwnerFullControl, bucketOwnerRead, private, projectPrivate, publicRead" >>

C12_Witness ==
    /\ inputs.storageClass = "COLDLINE"
    /\ inputs.predefinedAcl = "world"
    /\ dl # NoDownload
    /\ srcState = "open"
    /\ pc = "Failed"

\* C13: every run eventually reaches exactly one of Done (outputs written)
\* and Failed (failure signal raised), never both; a run whose source stream
\* fails in the middle of the transfer reaches Failed.
C13_EveryRunTerminates ==
    /\ [](outputs = <<>> \/ failures = <<>>)
    /\ <>(pc \in {"Done", "Failed"})
    /\ (srcState = "errored") ~> (pc = "Failed")

\* C13 without the source failure: a run whose source stream does not fail
\* reaches Done or Failed, and never both
C13_TerminatesUnlessSourceFails ==
    /\ [](outputs = <<>> \/ failures = <<>>)
    /\ <>(pc \in {"Done", "Failed"} \/ srcState = "errored")

\* C14: a run that fails after the fetch returned a live body stream, by a
\* failure of the write stream or by the uploader rejecting its options, has
\* closed or drained that stream: in Failed no body stream is left open.
C14_SourceReleasedOnFailure ==
    (pc = "Failed" /\ dl # NoDownload) => srcState # "open"

\* C15: the upload completes only after the write stream emitted 'finish':
\* while the source has ended and the write stream has not finished, nothing
\* after uploadPromise has run and no output is written; a write-stream error
\* before 'finish' fails the upload.
C15_CompletionOnlyAfterFinish ==
    /\ (srcState = "ended" /\ wsState # "finished") =>
          /\ pc \in {"Uploading", "Failed"}
          /\ ~Has("set_storage_class")
          /\ ~Has("get_metadata")
          /\ outputs = <<>>
    /\ (Has("set_storage_class") \/ Has("get_metadata") \/ (pc = "Done" /\ Has("ws_open"))) =>
          /\ wsState = "finished"
          /\ Has("ws_finish")
    /\ Has("ws_error") =>
          /\ pc = "Failed"
          /\ ~Has("ws_finish")
          /\ outputs = <<>>
          /\ \E e \in WriteErrors :
                failures = << "Action failed: Failed to upload to GCS: " \o e.message >>

C15_Witness ==
    /\ pc = "Uploading"
    /\ srcState = "ended"
    /\ wsState = "ending"
    /\ bytesTransferred > 0

\* the storage operations of the uploader, in the order the log has them
RECURSIVE StorageOps(_)
StorageOps(lg) ==
    IF lg = <<>> THEN <<>>
    ELSE IF Head(lg) \in {"ws_open", "ws_finish", "ws_error", "set_storage_class",
                          "storage_class_error", "get_metadata", "metadata_error"}
         THEN <<Head(lg)>> \o StorageOps(Tail(lg))
         ELSE StorageOps(Tail(lg))

\* s is a prefix of t
IsPrefix(s, t) == Len(s) <= Len(t) /\ SubSeq(t, 1, Len(s)) = s

\* C16: the storage operations of one upload are, in this order: open the
\* write stream, the write stream finishes, the storage-class update (when a
\* class is given), the metadata read, the return of the result.  No
\* storage-class update precedes the finish or follows a write failure, and
\* the generation returned is the one the metadata read gave.
C16_StorageOperationOrder ==
    /\ \/ IsPrefix(StorageOps(log),
                    IF storageClass # ""
                    THEN <<"ws_open", "ws_finish", "set_storage_class", "get_metadata">>
                    ELSE <<"ws_open", "ws_finish", "get_metadata">>)
       \/ StorageOps(log) = <<"ws_open", "ws_error">>
       \/ StorageOps(log) = <<"ws_open", "ws_finish", "set_storage_class",
                              "storage_class_error">>
       \/ /\ StorageOps(log) = (IF storageClass # ""
                                 THEN <<"ws_open", "ws_finish", "set_storage_class",
                                        "get_metadata", "metadata_error">>
                                 ELSE <<"ws_open", "ws_finish", "get_metadata",
                                        "metadata_error">>)
    /\ (pc = "Done" /\ Has("ws_open")) =>
          /\ log[Len(log)] = "get_metadata"
          /\ OutputValue("generation") = GenerationString(storeGen)
          /\ OutputValue("generation") # ""

C16_Witness ==
    /\ pc = "Done"
    /\ inputs.storageClass = "COLDLINE"
    /\ StorageOps(log) = <<"ws_open", "ws_finish", "set_storage_class", "get_metadata">>

\* C17: when the write completed and the storage-class update fails, the
\* transfer is not failed: a warning is given and the run goes on to Done.
C17_StorageClassFailureIsWarning ==
    Has("storage_class_error") =>
        /\ pc # "Failed"
        /\ failures = <<>>
        /\ warnings # <<>>

\* C18: in a run the existence query, the Fetcher and the Uploader are each
\* invoked at most once; after a failure of the upload no fetch and no upload
\* follows, and the run is Failed with one failure signal.
C18_NothingRetriedByRun ==
    /\ Count("exists_query") <= 1
    /\ Count("http_request") =
          Count("http_transient_failure") + (IF Has("http_request") THEN 1 ELSE 0)
    /\ Count("fetch_failed") <= 1
    /\ Count("ws_open") <= 1
    /\ Count("pipe") <= 1
    /\ \A i, j \in 1..Len(log) :
          (log[i] = "ws_open" /\ log[j] \in {"http_request", "exists_query"}) => j < i
    /\ (Has("ws_error") \/ Has("storage_class_error") \/ Has("metadata_error")) =>
          /\ pc = "Failed"
          /\ log[Len(log)] \in {"ws_error", "storage_class_error", "metadata_error"}
          /\ Count("ws_error") + Count("storage_class_error") + Count("metadata_error") = 1
          /\ Len(failures) = 1
          /\ outputs = <<>>

C18_Witness ==
    /\ pc = "Failed"
    /\ Has("ws_error")
    /\ Count("http_request") = 2
    /\ bytesTransferred > 0

\* C19: with if-not-exists=true in two concurrent invocations on the same
\* bucket and object, an invocation never opens a write while the object
\* exists, and at most one of the two writes the object.
C19_NoWriteOverExistingObject ==
    /\ [][(/\ ifNotExists
           /\ peer.pc = "None" \/ peer.ifNotExists
           /\ wsState = "none"
           /\ wsState' = "open") => storeGen = 0]_vars
    /\ []((ifNotExists /\ peer.ifNotExists) => ~(writtenGen > 0 /\ peer.pc = "Done"))

\* C20: the generation output of a run that transferred is the generation
\* the store gave that run's own write, whatever another invocation writes to
\* the same object meanwhile, and it is not empty.
C20_GenerationIsOfOwnWrite ==
    (pc = "Done" /\ Has("ws_finish")) =>
        /\ OutputValue("generation") = NatToString(writtenGen)
        /\ OutputValue("generation") # ""

\* C20 when no other invocation writes the object
C20_AloneGenerationIsOfOwnWrite ==
    peer.pc = "None" => C20_GenerationIsOfOwnWrite

====
